---- MODULE Spec2Model ----
(***************************************************************************)
(* Model of the clique index of teriyaki (src/src/models/clique.rs):       *)
(* Clique, CliqueCollection and CliqueChange.                              *)
(*                                                                         *)
(* A collection value is a record [cliques, queue, index_map, ok].         *)
(* cliques is the Vec<Clique> (slot i of the source is element i+1 of the  *)
(* sequence), queue the VecDeque of free indices, index_map the HashMap    *)
(* from identifier to class index (a function whose DOMAIN is the key set) *)
(* and ok is FALSE once a panic has unwound the call.                      *)
(***************************************************************************)
EXTENDS Integers, Sequences, FiniteSets, TLC

\* ---------------------------------------------------------------- bounds
NumNodes == 3
NumPreds == 3
MaxGroup == 2
MaxCalls == 5
SuperNodes == 4
SuperClasses == 2

NodeIds == 1..NumNodes
PredIds == {100 + i : i \in 1..NumPreds}
Ids == NodeIds \cup PredIds

VARIABLES
    cliques,      \* CliqueCollection.cliques of the source-side collection
    queue,        \* CliqueCollection.queue
    index_map,    \* CliqueCollection.index_map
    aborted,      \* TRUE once a call has panicked: the run is over
    last,         \* the driver's last call and its arguments (a call with
                  \* one identifier argument records it as both a and b)
    pre,          \* the collection as it was when the last call began
    calls,        \* number of calls made so far
    scn,          \* the identifiers of the end-to-end scenario
    tc,           \* the target-side collection
    change,       \* the CliqueChange handed to get_super_nodes
    super_nodes,  \* what get_super_nodes returned
    inserted,     \* the (node, pred) pairs given to new_triple so far
    meta,         \* the Meta handed to get_all_edges
    all_edges     \* what get_all_edges returned

vars == <<cliques, queue, index_map, aborted, last, pre, calls, scn, tc,
          change, super_nodes, inserted, meta, all_edges>>

\* --------------------------------------------------------------- helpers
Range(s) == {s[i] : i \in DOMAIN s}

\* ---------------------------------------------------------------- Clique
Clique_new(preds, nodes) == [preds |-> preds, nodes |-> nodes]

Clique_remove_node(self, node) ==
    [self EXCEPT !.nodes = SelectSeq(self.nodes, LAMBDA n : n # node)]

\* node_intersection without the membership test
node_intersection_all(self, c) == self.nodes

node_intersection(self, c) ==
    SelectSeq(self.nodes, LAMBDA n : n \in Range(c.nodes))

\* ------------------------------------------------------ CliqueCollection
CliqueCollection_new ==
    [cliques |-> <<Clique_new(<<>>, <<>>)>>, queue |-> <<>>,
     index_map |-> <<>>, ok |-> TRUE]

Self == [cliques |-> cliques, queue |-> queue, index_map |-> index_map,
         ok |-> ~aborted]

\* a failed unwrap() or an explicit panic!: the call unwinds here
Panic(c) == [c EXCEPT !.ok = FALSE]

contains_pred(c, pred) == pred \in DOMAIN c.index_map

contains_node(c, node) == node \in DOMAIN c.index_map

map_insert(m, k, v) ==
    [x \in DOMAIN m \cup {k} |-> IF x = k THEN v ELSE m[x]]

map_remove(m, k) == [x \in DOMAIN m \ {k} |-> m[x]]

set_index(c, preds, nodes, index) ==
    LET keys == Range(preds) \cup Range(nodes)
    IN  [c EXCEPT !.index_map =
            [x \in DOMAIN c.index_map \cup keys |->
                IF x \in keys THEN index ELSE c.index_map[x]]]

\* remove_clique_by_index with push_front in place of push_back
remove_clique_by_index_front(c, index) ==
    [c EXCEPT !.cliques[index + 1] = Clique_new(<<>>, <<>>),
              !.queue = <<index>> \o c.queue]

remove_clique_by_index(c, index) ==
    [c EXCEPT !.cliques[index + 1] = Clique_new(<<>>, <<>>),
              !.queue = Append(c.queue, index)]

\* merge_cliques without the extend of a's preds
merge_cliques_nodes_only(c, a, b) ==
    IF ~c.ok THEN c
    ELSE IF a \notin DOMAIN c.index_map \/ b \notin DOMAIN c.index_map
    THEN Panic(c)
    ELSE LET a_index  == c.index_map[a]
             b_index  == c.index_map[b]
             b_clique == c.cliques[b_index + 1]
             c1 == set_index(c, b_clique.preds, b_clique.nodes, a_index)
             c2 == [c1 EXCEPT
                      !.cliques[a_index + 1].nodes = @ \o b_clique.nodes]
         IN  remove_clique_by_index(c2, b_index)

merge_cliques(c, a, b) ==
    IF ~c.ok THEN c
    ELSE IF a \notin DOMAIN c.index_map \/ b \notin DOMAIN c.index_map
    THEN Panic(c)
    ELSE LET a_index  == c.index_map[a]
             b_index  == c.index_map[b]
             b_clique == c.cliques[b_index + 1]
             c1 == set_index(c, b_clique.preds, b_clique.nodes, a_index)
             c2 == [c1 EXCEPT
                      !.cliques[a_index + 1].nodes = @ \o b_clique.nodes,
                      !.cliques[a_index + 1].preds = @ \o b_clique.preds]
         IN  remove_clique_by_index(c2, b_index)

\* add_pred_to_clique without the check for the empty clique
add_pred_to_clique_unguarded(c, node, pred) ==
    IF ~c.ok THEN c
    ELSE IF node \notin DOMAIN c.index_map THEN Panic(c)
    ELSE LET index == c.index_map[node]
         IN  [c EXCEPT !.cliques[index + 1].preds = Append(@, pred),
                       !.index_map = map_insert(@, pred, index)]

add_pred_to_clique(c, node, pred) ==
    IF ~c.ok THEN c
    ELSE IF node \notin DOMAIN c.index_map THEN Panic(c)
    ELSE LET index == c.index_map[node]
         IN  IF index = 0 THEN Panic(c)
             ELSE [c EXCEPT !.cliques[index + 1].preds = Append(@, pred),
                            !.index_map = map_insert(@, pred, index)]

\* add_node_to_clique without the index_map.insert
add_node_to_clique_unmapped(c, node, target) ==
    IF ~c.ok THEN c
    ELSE IF target \notin DOMAIN c.index_map THEN Panic(c)
    ELSE LET index == c.index_map[target]
         IN  [c EXCEPT !.cliques[index + 1].nodes = Append(@, node)]

add_node_to_clique(c, node, target) ==
    IF ~c.ok THEN c
    ELSE IF target \notin DOMAIN c.index_map THEN Panic(c)
    ELSE LET index == c.index_map[target]
         IN  [c EXCEPT !.cliques[index + 1].nodes = Append(@, node),
                       !.index_map = map_insert(@, node, index)]

add_node_to_empty_clique(c, node) ==
    IF ~c.ok THEN c
    ELSE [c EXCEPT !.cliques[1].nodes = Append(@, node),
                   !.index_map = map_insert(@, node, 0)]

\* new_clique with pop_back in place of pop_front
new_clique_lifo(c, preds, nodes) ==
    IF ~c.ok THEN c
    ELSE IF c.queue # <<>>
    THEN LET index == c.queue[Len(c.queue)]
             c1 == [c EXCEPT !.queue = SubSeq(@, 1, Len(@) - 1),
                             !.cliques[index + 1] = Clique_new(preds, nodes)]
         IN  set_index(c1, preds, nodes, index)
    ELSE LET c1 == [c EXCEPT !.cliques = Append(@, Clique_new(preds, nodes))]
         IN  set_index(c1, preds, nodes, Len(c1.cliques) - 1)

new_clique(c, preds, nodes) ==
    IF ~c.ok THEN c
    ELSE IF c.queue # <<>>
    THEN LET index == Head(c.queue)
             c1 == [c EXCEPT !.queue = Tail(@),
                             !.cliques[index + 1] = Clique_new(preds, nodes)]
         IN  set_index(c1, preds, nodes, index)
    ELSE LET c1 == [c EXCEPT !.cliques = Append(@, Clique_new(preds, nodes))]
         IN  set_index(c1, preds, nodes, Len(c1.cliques) - 1)

\* new_triple that leaves two known identifiers in their classes
new_triple_no_merge(c, node, pred) ==
    LET node_exists == contains_node(c, node)
        pred_exists == contains_pred(c, pred)
    IN  IF ~c.ok THEN c
        ELSE IF ~node_exists /\ ~pred_exists
        THEN new_clique(c, <<pred>>, <<node>>)
        ELSE IF ~node_exists /\ pred_exists
        THEN add_node_to_clique(c, node, pred)
        ELSE IF node_exists /\ ~pred_exists
        THEN add_pred_to_clique(c, node, pred)
        ELSE c

new_triple(c, node, pred) ==
    LET node_exists == contains_node(c, node)
        pred_exists == contains_pred(c, pred)
    IN  IF ~c.ok THEN c
        ELSE IF ~node_exists /\ ~pred_exists
        THEN new_clique(c, <<pred>>, <<node>>)
        ELSE IF ~node_exists /\ pred_exists
        THEN add_node_to_clique(c, node, pred)
        ELSE IF node_exists /\ ~pred_exists
        THEN add_pred_to_clique(c, node, pred)
        ELSE IF c.index_map[node] # c.index_map[pred]
        THEN merge_cliques(c, node, pred)
        ELSE c

new_pred(c, pred) ==
    IF ~c.ok THEN c
    ELSE IF contains_pred(c, pred) THEN Panic(c)
    ELSE new_clique(c, <<pred>>, <<>>)

in_same_clique(c, a, b) == c.index_map[a] = c.index_map[b]

in_empty_clique(c, node) == c.index_map[node] = 0

get_index(c, id) == c.index_map[id]

get_nodes(c, index) == c.cliques[index + 1].nodes

get_clique_by_node(c, id) == c.cliques[get_index(c, id) + 1]

get_clique_by_index(c, index) == c.cliques[index + 1]

clique_len(c, index) == Len(c.cliques[index + 1].nodes)

remove_node(c, node) ==
    IF ~c.ok THEN c
    ELSE IF node \notin DOMAIN c.index_map THEN Panic(c)
    ELSE LET index == get_index(c, node)
             c1 == [c EXCEPT
                      !.cliques[index + 1] = Clique_remove_node(@, node),
                      !.index_map = map_remove(@, node)]
         IN  IF index # 0 /\ c1.cliques[index + 1].nodes = <<>>
             THEN [c1 EXCEPT !.queue = Append(@, index)]
             ELSE c1

move_node(c, node, target) ==
    add_node_to_clique(remove_node(c, node), node, target)

move_node_to_empty_clique(c, node) ==
    add_node_to_empty_clique(remove_node(c, node), node)

snode_split_and_move(c, node, target) == add_node_to_clique(c, node, target)

snode_split(c, node, parent) == add_node_to_clique(c, node, parent)

to_single_node(c, snode, single) ==
    remove_node(add_node_to_clique(c, single, snode), snode)

RECURSIVE remove_nodes(_, _)
remove_nodes(c, old) ==
    IF old = <<>> THEN c
    ELSE remove_nodes(remove_node(c, Head(old)), Tail(old))

\* new_snode whose loop starts at the second member of old
new_snode_skips_first(c, old, new) ==
    IF ~c.ok THEN c
    ELSE IF old = <<>> THEN Panic(c)
    ELSE remove_nodes(add_node_to_clique(c, new, old[1]), Tail(old))

new_snode(c, old, new) ==
    IF ~c.ok THEN c
    ELSE IF old = <<>> THEN Panic(c)
    ELSE remove_nodes(add_node_to_clique(c, new, old[1]), old)

\* meta.get_supernode(p): the member list Meta records for p, None when
\* p is not a supernode; the list is an input of remove_supernode
None == <<0>>

RECURSIVE add_nodes_to_clique(_, _, _)
add_nodes_to_clique(c, children, p) ==
    IF children = <<>> THEN c
    ELSE add_nodes_to_clique(add_node_to_clique(c, Head(children), p),
                             Tail(children), p)

\* remove_supernode without the final remove_node(p)
remove_supernode_keeps_p(c, p, get_supernode) ==
    IF ~c.ok THEN c
    ELSE IF get_supernode = None THEN Panic(c)
    ELSE add_nodes_to_clique(c, get_supernode, p)

remove_supernode(c, p, get_supernode) ==
    IF ~c.ok THEN c
    ELSE IF get_supernode = None THEN Panic(c)
    ELSE remove_node(add_nodes_to_clique(c, get_supernode, p), p)

\* ----------------------------------------------------------- CliqueChange
CliqueChange_new(clique_index, new_nodes, is_source) ==
    [clique_index |-> clique_index, new_nodes |-> new_nodes,
     is_source |-> is_source]

\* the loop of get_super_nodes over self.new_nodes; get_clique_by_node
\* panics on a node the other side does not know
RECURSIVE super_nodes_loop(_, _, _, _)
super_nodes_loop(c1, other, new_nodes, acc) ==
    IF new_nodes = <<>> THEN [ok |-> TRUE, super_nodes |-> acc]
    ELSE IF Head(new_nodes) \notin DOMAIN other.index_map
    THEN [ok |-> FALSE, super_nodes |-> acc]
    ELSE LET c2 == get_clique_by_node(other, Head(new_nodes))
             intersect == node_intersection(c1, c2)
         IN  super_nodes_loop(c1, other, Tail(new_nodes),
                 IF Len(intersect) >= 2 THEN Append(acc, intersect) ELSE acc)

get_super_nodes(self, s, t) ==
    LET side == IF self.is_source THEN s ELSE t
        other == IF self.is_source THEN t ELSE s
    IN  IF self.clique_index >= Len(side.cliques)
        THEN [ok |-> FALSE, super_nodes |-> <<>>]
        ELSE super_nodes_loop(get_clique_by_index(side, self.clique_index),
                              other, self.new_nodes, <<>>)

\* ------------------------------------------------------- the driver's calls
\* duplicate-free identifier lists of length 1..MaxGroup
Groups(S) ==
    {l \in UNION {[1..k -> S] : k \in 1..MaxGroup} :
        \A i, j \in DOMAIN l : i # j => l[i] # l[j]}

Known == DOMAIN index_map

KnownNodes == NodeIds \cap Known

KnownPreds == PredIds \cap Known

Min(S) == CHOOSE x \in S : \A y \in S : x <= y

\* The collection compares identifiers only for equality and its state
\* never mentions an identifier it does not know, so calls that differ only
\* in which unknown identifiers they pass lead to states that differ only by
\* a renaming.  An unknown argument is therefore drawn as the smallest
\* unknown identifier of its kind, a list of unknown arguments as the
\* smallest ones in increasing order.
FreshNodes == IF NodeIds \ Known = {} THEN {} ELSE {Min(NodeIds \ Known)}

FreshPreds == IF PredIds \ Known = {} THEN {} ELSE {Min(PredIds \ Known)}

RECURSIVE Ascending(_)
Ascending(S) ==
    IF S = {} THEN <<>> ELSE <<Min(S)>> \o Ascending(S \ {Min(S)})

FreshGroups ==
    {SubSeq(Ascending(NodeIds \ Known), 1, k) :
        k \in 1..(IF Cardinality(NodeIds \ Known) < MaxGroup
                  THEN Cardinality(NodeIds \ Known) ELSE MaxGroup)}

Call(op, a, b, l) == [op |-> op, a |-> a, b |-> b, l |-> l]

Strip(c) == [cliques |-> c.cliques, queue |-> c.queue,
             index_map |-> c.index_map]

NoScenario == <<>>

NoChange == [clique_index |-> 0, new_nodes |-> <<>>, is_source |-> TRUE]

NoMeta == <<>>

NoEdges == <<>>

\* one call of the driver on the collection: the call's result becomes the
\* state; a panic ends the run
\* (a run is followed until it computes a CliqueChange: new_merge and
\* get_super_nodes read the collections and leave them as they are)
DoCall(r, call) ==
    /\ ~aborted
    /\ change = NoChange
    /\ calls < MaxCalls
    /\ calls' = calls + 1
    /\ cliques' = r.cliques
    /\ queue' = r.queue
    /\ index_map' = r.index_map
    /\ aborted' = ~r.ok
    /\ last' = call
    /\ pre' = Strip(Self)
    /\ UNCHANGED <<tc, change, super_nodes, meta, all_edges>>

Do(r, call) == DoCall(r, call) /\ UNCHANGED <<scn, inserted>>

Init ==
    /\ cliques = CliqueCollection_new.cliques
    /\ queue = CliqueCollection_new.queue
    /\ index_map = CliqueCollection_new.index_map
    /\ aborted = FALSE
    /\ last = Call("new", 0, 0, <<>>)
    /\ pre = Strip(CliqueCollection_new)
    /\ calls = 0
    /\ scn = NoScenario
    /\ tc = Strip(CliqueCollection_new)
    /\ change = NoChange
    /\ super_nodes = <<>>
    /\ inserted = {}
    /\ meta = NoMeta
    /\ all_edges = NoEdges

NewTriple ==
    \E node \in KnownNodes \cup FreshNodes, pred \in KnownPreds \cup FreshPreds :
        Do(new_triple(Self, node, pred), Call("new_triple", node, pred, <<>>))

MergeCliques ==
    \E a \in Known, b \in Known :
        /\ index_map[a] # index_map[b]
        /\ Do(merge_cliques(Self, a, b), Call("merge_cliques", a, b, <<>>))

AddNodeToEmptyClique ==
    \E node \in FreshNodes :
        Do(add_node_to_empty_clique(Self, node),
           Call("add_node_to_empty_clique", node, node, <<>>))

NewPred ==
    \E pred \in FreshPreds :
        Do(new_pred(Self, pred), Call("new_pred", pred, pred, <<>>))

MoveNode ==
    \E node \in KnownNodes : \E target \in Known \ {node} :
        Do(move_node(Self, node, target),
           Call("move_node", node, target, <<>>))

MoveNodeToEmptyClique ==
    \E node \in KnownNodes :
        Do(move_node_to_empty_clique(Self, node),
           Call("move_node_to_empty_clique", node, node, <<>>))

RemoveNode ==
    \E node \in KnownNodes :
        Do(remove_node(Self, node), Call("remove_node", node, node, <<>>))

NewSnode ==
    \E old \in Groups(KnownNodes), new \in FreshNodes :
        Do(new_snode(Self, old, new), Call("new_snode", new, new, old))

ToSingleNode ==
    \E snode \in KnownNodes, single \in FreshNodes :
        Do(to_single_node(Self, snode, single),
           Call("to_single_node", snode, single, <<>>))

RemoveSupernode ==
    \E p \in KnownNodes, children \in FreshGroups :
        Do(remove_supernode(Self, p, children),
           Call("remove_supernode", p, p, children))

\* snode_split and snode_split_and_move are add_node_to_clique under another
\* name; NewTriple runs that code in its second case.
Next ==
    \/ NewTriple
    \/ MergeCliques
    \/ AddNodeToEmptyClique
    \/ NewPred
    \/ MoveNode
    \/ MoveNodeToEmptyClique
    \/ RemoveNode
    \/ NewSnode
    \/ ToSingleNode
    \/ RemoveSupernode

Spec == Init /\ [][Next]_vars

TypeOK ==
    /\ Range(queue) \subseteq 0..(Len(cliques) - 1)
    /\ \A id \in DOMAIN index_map : index_map[id] \in 0..(Len(cliques) - 1)

\* ------------------------------------------------------ reading a state
Members(cl) == Range(cl.preds) \cup Range(cl.nodes)

\* the slots (as indices of the source) whose clique holds id
Holders(cl, id) == {i \in 0..(Len(cl) - 1) : id \in Members(cl[i + 1])}

Resolving(m, index) == {id \in DOMAIN m : m[id] = index}

IsEmptyClique(cl) == cl.preds = <<>> /\ cl.nodes = <<>>

NoDuplicates(s) == \A i, j \in DOMAIN s : i # j => s[i] # s[j]

\* the last call was new_triple(node, pred) and began in the given case
TripleCase(node_known, pred_known) ==
    /\ last.op = "new_triple"
    /\ (last.a \in DOMAIN pre.index_map) = node_known
    /\ (last.b \in DOMAIN pre.index_map) = pred_known

\* the last call ran merge_cliques(last.a, last.b) on two different classes
\* and returned: called directly, or by new_triple in its fourth case
Merged ==
    /\ ~aborted
    /\ \/ last.op = "merge_cliques"
       \/ TripleCase(TRUE, TRUE)
    /\ pre.index_map[last.a] # pre.index_map[last.b]

\* the last call ran new_clique(preds, nodes) and returned
Allocated ==
    /\ ~aborted
    /\ \/ TripleCase(FALSE, FALSE)
       \/ last.op = "new_pred"

AllocatedPreds == IF last.op = "new_pred" THEN {last.a} ELSE {last.b}

AllocatedNodes == IF last.op = "new_pred" THEN {} ELSE {last.a}

\* ------------------------------------------------------------------ C1
\* C1: in every state reachable by the mutating operations called within
\* their preconditions, an identifier has an index_map entry iff it occurs
\* in the preds or nodes of some clique, it occurs in exactly one clique,
\* and its entry is the index of that clique.
C1_Bijection ==
    \A id \in Ids :
        /\ id \in DOMAIN index_map <=> Holders(cliques, id) # {}
        /\ id \in DOMAIN index_map => Holders(cliques, id) = {index_map[id]}

\* ------------------------------------------------------------------ C2
\* C2: after merge_cliques(a, b) on identifiers of different classes, a's
\* class holds the union of the two node sets and of the two predicate
\* sets, every identifier of b's former class resolves to a's index, b's
\* class is empty and b's former index is the last element of the free
\* list.
C2_MergeResult ==
    Merged =>
        LET a_index == pre.index_map[last.a]
            b_index == pre.index_map[last.b]
            a_old == pre.cliques[a_index + 1]
            b_old == pre.cliques[b_index + 1]
        IN  /\ Range(cliques[a_index + 1].nodes)
                 = Range(a_old.nodes) \cup Range(b_old.nodes)
            /\ Range(cliques[a_index + 1].preds)
                 = Range(a_old.preds) \cup Range(b_old.preds)
            /\ \A id \in Members(b_old) :
                 id \in DOMAIN index_map /\ index_map[id] = a_index
            /\ IsEmptyClique(cliques[b_index + 1])
            /\ queue # <<>> /\ queue[Len(queue)] = b_index

C2_Witness ==
    /\ Merged
    /\ last.op = "merge_cliques"
    /\ pre.queue # <<>>
    /\ pre.cliques[pre.index_map[last.a] + 1].nodes # <<>>
    /\ pre.cliques[pre.index_map[last.b] + 1].nodes # <<>>
    /\ pre.cliques[pre.index_map[last.a] + 1].preds # <<>>
    /\ pre.cliques[pre.index_map[last.b] + 1].preds # <<>>

\* ------------------------------------------------------------------ C3
\* C3: new_triple(node, pred) follows the four-way case split: neither
\* known -> one new class with preds = {pred} and nodes = {node}; only pred
\* known -> node appended to the nodes of pred's class; only node known
\* (node not in class 0) -> pred appended to the preds of node's class;
\* both known -> nothing changes when they share a class, otherwise pred's
\* class is merged into node's class.  Whenever the call returns, node and
\* pred are known and in the same class.
C3_NewTripleCases ==
    last.op = "new_triple" =>
        LET node == last.a
            pred == last.b
            m == pre.index_map
        IN  /\ TripleCase(FALSE, FALSE) =>
                \E i \in DOMAIN cliques :
                    /\ cliques[i] = Clique_new(<<pred>>, <<node>>)
                    /\ \A j \in DOMAIN pre.cliques \ {i} :
                          cliques[j] = pre.cliques[j]
                    /\ Len(cliques) \in {Len(pre.cliques), i}
            /\ TripleCase(FALSE, TRUE) =>
                cliques = [pre.cliques EXCEPT
                              ![m[pred] + 1].nodes = Append(@, node)]
            /\ TripleCase(TRUE, FALSE) /\ m[node] # 0 =>
                cliques = [pre.cliques EXCEPT
                              ![m[node] + 1].preds = Append(@, pred)]
            /\ TripleCase(TRUE, TRUE) /\ m[node] = m[pred] =>
                Strip(Self) = pre
            /\ TripleCase(TRUE, TRUE) /\ m[node] # m[pred] =>
                /\ Members(cliques[m[node] + 1])
                     = Members(pre.cliques[m[node] + 1])
                         \cup Members(pre.cliques[m[pred] + 1])
                /\ IsEmptyClique(cliques[m[pred] + 1])
            /\ ~aborted =>
                /\ node \in DOMAIN index_map
                /\ pred \in DOMAIN index_map
                /\ in_same_clique(Self, node, pred)

\* ------------------------------------------------------------------ C6
\* C6: a node added with add_node_to_empty_clique is known, resolves to
\* class index 0 and in_empty_clique reports true for it; while a node is
\* in class 0, new_triple(node, pred) with an unknown pred panics and adds
\* pred to no class and not to the lookup.
C6_EmptyClique ==
    /\ last.op = "add_node_to_empty_clique" =>
          /\ ~aborted
          /\ contains_node(Self, last.a)
          /\ get_index(Self, last.a) = 0
          /\ in_empty_clique(Self, last.a)
          /\ last.a \in Range(cliques[1].nodes)
    /\ TripleCase(TRUE, FALSE) /\ pre.index_map[last.a] = 0 =>
          /\ aborted
          /\ ~contains_pred(Self, last.b)
          /\ Holders(cliques, last.b) = {}
          /\ Strip(Self) = pre

C6_Witness ==
    /\ aborted
    /\ TripleCase(TRUE, FALSE)
    /\ pre.index_map[last.a] = 0
    /\ last.a \in Range(pre.cliques[1].nodes)

\* ------------------------------------------------------------------ C7
\* C7: whenever new_clique(preds, nodes) reissues an index taken from the
\* free list, afterwards exactly the identifiers in preds and nodes resolve
\* to that index, and no identifier of the slot's previous content still
\* resolves to it.
C7_Recycling ==
    Allocated /\ pre.queue # <<>> =>
        LET index == Head(pre.queue)
        IN  /\ Resolving(index_map, index) = AllocatedPreds \cup AllocatedNodes
            /\ \A id \in Members(pre.cliques[index + 1]) :
                  id \notin Resolving(index_map, index)

\* ------------------------------------------------------------------ C8
\* C8: every index on the free list names a class whose node set and
\* predicate set are both empty, and no index is on the free list twice.
C8_FreeListEligible ==
    /\ \A i \in DOMAIN queue : IsEmptyClique(cliques[queue[i] + 1])
    /\ NoDuplicates(queue)

\* ------------------------------------------------------------------ C9
\* C9: new_clique appends a slot to the backing store only when the free
\* list is empty; otherwise the number of slots is unchanged and the new
\* class occupies the index that has been on the free list longest.  Every
\* call changes the free list only by taking its head or by appending at
\* its back, so indices are reissued in the order in which they were freed.
IsPrefix(s, t) == Len(s) <= Len(t) /\ SubSeq(t, 1, Len(s)) = s

C9_FifoReuse ==
    /\ Allocated =>
          LET index == IF pre.queue = <<>> THEN Len(pre.cliques)
                       ELSE Head(pre.queue)
          IN  /\ Len(cliques) = IF pre.queue = <<>> THEN Len(pre.cliques) + 1
                                ELSE Len(pre.cliques)
              /\ queue = IF pre.queue = <<>> THEN <<>> ELSE Tail(pre.queue)
              /\ Range(cliques[index + 1].preds) = AllocatedPreds
              /\ Range(cliques[index + 1].nodes) = AllocatedNodes
              /\ \A id \in AllocatedPreds \cup AllocatedNodes :
                    index_map[id] = index
    /\ ~Allocated =>
          /\ Len(cliques) = Len(pre.cliques)
          /\ IsPrefix(pre.queue, queue)

C9_Witness ==
    /\ Allocated
    /\ Len(pre.queue) >= 2
    /\ pre.queue[1] # pre.queue[Len(pre.queue)]
    /\ index_map[last.b] = pre.queue[1]

\* --------------------------------------- insertions only (claim C5's runs)
NextTriple ==
    \/ AddNodeToEmptyClique
    \/ NewTriple

SpecTriple == Init /\ [][NextTriple]_vars

\* ------------------------------------------------------------------ C5
\* C5: in every state reachable by add_node_to_empty_clique (on unknown
\* nodes) and new_triple calls, the class at index 0 has no predicates, is
\* neither the surviving nor the absorbed class of a merge, and index 0 is
\* never on the free list.
C5_IndexZeroReserved ==
    /\ cliques[1].preds = <<>>
    /\ 0 \notin Range(queue)
    /\ Merged => pre.index_map[last.a] # 0 /\ pre.index_map[last.b] # 0

\* ------------------------------------------ the end-to-end scenario (C4)
Scenarios ==
    {t \in [n1 : Ids, n2 : Ids, p1 : Ids, p2 : Ids] :
        Cardinality({t.n1, t.n2, t.p1, t.p2}) = 4}

InitScenario ==
    /\ cliques = CliqueCollection_new.cliques
    /\ queue = CliqueCollection_new.queue
    /\ index_map = CliqueCollection_new.index_map
    /\ aborted = FALSE
    /\ last = Call("new", 0, 0, <<>>)
    /\ pre = Strip(CliqueCollection_new)
    /\ calls = 0
    /\ scn \in Scenarios
    /\ tc = Strip(CliqueCollection_new)
    /\ change = NoChange
    /\ super_nodes = <<>>
    /\ inserted = {}
    /\ meta = NoMeta
    /\ all_edges = NoEdges

FirstTriple ==
    /\ calls = 0
    /\ Do(new_triple(Self, scn.n1, scn.p1),
          Call("new_triple", scn.n1, scn.p1, <<>>))

SecondTriple ==
    /\ calls = 1
    /\ Do(new_triple(Self, scn.n2, scn.p1),
          Call("new_triple", scn.n2, scn.p1, <<>>))

ThirdTriple ==
    /\ calls = 2
    /\ Do(new_triple(Self, scn.n2, scn.p2),
          Call("new_triple", scn.n2, scn.p2, <<>>))

NextScenario == FirstTriple \/ SecondTriple \/ ThirdTriple

SpecScenario == InitScenario /\ [][NextScenario]_vars

NonEmptySlots == {i \in 0..(Len(cliques) - 1) : ~IsEmptyClique(cliques[i + 1])}

\* C4: for distinct fresh n1, n2, p1, p2 on a new collection, after
\* new_triple(n1, p1); new_triple(n2, p1) the nodes n1 and n2 are in the
\* same class; after the further new_triple(n2, p2) there is exactly one
\* non-empty class, its preds are {p1, p2}, its nodes {n1, n2}, and all
\* four identifiers resolve to its index.
C4_Scenario ==
    scn # NoScenario =>
        /\ ~aborted
        /\ calls >= 2 =>
              /\ {scn.n1, scn.n2} \subseteq DOMAIN index_map
              /\ in_same_clique(Self, scn.n1, scn.n2)
        /\ calls = 3 =>
              \E i \in NonEmptySlots :
                  /\ NonEmptySlots = {i}
                  /\ Range(cliques[i + 1].preds) = {scn.p1, scn.p2}
                  /\ Range(cliques[i + 1].nodes) = {scn.n1, scn.n2}
                  /\ Len(cliques[i + 1].preds) = 2
                  /\ Len(cliques[i + 1].nodes) = 2
                  /\ \A id \in {scn.n1, scn.n2, scn.p1, scn.p2} :
                        id \in DOMAIN index_map /\ get_index(Self, id) = i

C4_Witness ==
    /\ scn # NoScenario
    /\ calls = 3
    /\ last = Call("new_triple", scn.n2, scn.p2, <<>>)
    /\ ~aborted

\* ----------------------------------------- get_super_nodes on two sides
SuperNodeIds == 1..SuperNodes

\* A collection whose slot 0 is the empty clique and whose slot k > 0 is
\* the class of predicate 100 + k, with node n in slot f[n]; node lists in
\* the order of insertion by increasing identifier.
Classified(f) ==
    [cliques |->
        [i \in 1..SuperClasses |->
            Clique_new(IF i = 1 THEN <<>> ELSE <<100 + i - 1>>,
                       Ascending({n \in SuperNodeIds : f[n] = i - 1}))],
     queue |-> <<>>,
     index_map |->
        [id \in SuperNodeIds \cup {100 + k : k \in 1..(SuperClasses - 1)} |->
            IF id \in SuperNodeIds THEN f[id] ELSE id - 100]]

\* get_super_nodes reads one slot of the touched side, chosen by
\* clique_index, and the other side's classes through the nodes' lookup: a
\* renumbering of a side's slots changes nothing it returns once every
\* clique_index is tried.  One numbering per partition of the nodes is
\* drawn: node 1 in slot 0, every further node in a slot already used or in
\* the next one.
Placements ==
    {f \in [SuperNodeIds -> 0..(SuperClasses - 1)] :
        /\ f[1] = 0
        /\ \A n \in SuperNodeIds \ {1} :
              \E m \in 1..(n - 1) : f[n] <= f[m] + 1}

NodeLists ==
    {<<>>} \cup
    {l \in UNION {[1..k -> SuperNodeIds] : k \in 1..MaxGroup} :
        NoDuplicates(l)}

InitSuper ==
    /\ \E f \in Placements :
          /\ cliques = Classified(f).cliques
          /\ queue = Classified(f).queue
          /\ index_map = Classified(f).index_map
          /\ pre = Classified(f)
    /\ \E g \in Placements : tc = Classified(g)
    /\ aborted = FALSE
    /\ last = Call("new", 0, 0, <<>>)
    /\ calls = 0
    /\ scn = NoScenario
    /\ change = NoChange
    /\ super_nodes = <<>>
    /\ inserted = {}
    /\ meta = NoMeta
    /\ all_edges = NoEdges

GetSuperNodes ==
    \E clique_index \in 0..(SuperClasses - 1), new_nodes \in NodeLists,
       is_source \in BOOLEAN :
        LET self == CliqueChange_new(clique_index, new_nodes, is_source)
            r == get_super_nodes(self, Strip(Self), tc)
        IN  /\ calls = 0
            /\ calls' = 1
            /\ change' = self
            /\ super_nodes' = r.super_nodes
            /\ aborted' = ~r.ok
            /\ last' = Call("get_super_nodes", 0, 0, <<>>)
            /\ UNCHANGED <<cliques, queue, index_map, pre, scn, tc, inserted,
                           meta, all_edges>>

SpecSuper == InitSuper /\ [][GetSuperNodes]_vars

Touched ==
    IF change.is_source THEN cliques[change.clique_index + 1]
    ELSE tc.cliques[change.clique_index + 1]

\* the class of node on the side the change did not touch
OtherClass(node) ==
    IF change.is_source THEN tc.cliques[tc.index_map[node] + 1]
    ELSE cliques[index_map[node] + 1]

\* C10: get_super_nodes never returns a group with fewer than 2 members,
\* and every returned group is exactly the intersection of the node set of
\* the touched class with the node set of the class that one of new_nodes
\* belongs to on the other side.
C10_SuperNodeThreshold ==
    last.op = "get_super_nodes" /\ ~aborted =>
        \A k \in DOMAIN super_nodes :
            /\ Cardinality(Range(super_nodes[k])) >= 2
            /\ \E j \in DOMAIN change.new_nodes :
                  Range(super_nodes[k])
                     = Range(Touched.nodes)
                         \cap Range(OtherClass(change.new_nodes[j]).nodes)

\* the node sets {1,2,3} and {2,3,4} yield the group {2,3}
C10_Witness ==
    /\ last.op = "get_super_nodes"
    /\ ~aborted
    /\ Len(change.new_nodes) = 1
    /\ Range(Touched.nodes) = {1, 2, 3}
    /\ Range(OtherClass(change.new_nodes[1]).nodes) = {2, 3, 4}
    /\ super_nodes = <<(<<2, 3>>)>>

\* ------------------------------ merge_cliques inside one class (claim C11)
\* merge_cliques(a, b) with a and b resolving to the same index, a = b
\* included: a call outside the contract of merge_cliques
MergeSameClass ==
    \E a \in Known, b \in Known :
        /\ index_map[a] = index_map[b]
        /\ Do(merge_cliques(Self, a, b), Call("merge_cliques", a, b, <<>>))

NextMisuse == Next \/ MergeSameClass

SpecMisuse == Init /\ [][NextMisuse]_vars

\* C11: merge_cliques(a, a), and merge_cliques(a, b) with a and b in the
\* same class, never returns with a modified collection: it aborts, and
\* neither the class nor the lookup is changed.
C11_SelfMergeAborts ==
    last.op = "merge_cliques" /\ pre.index_map[last.a] = pre.index_map[last.b]
        => aborted /\ Strip(Self) = pre

\* ----------------------------------------------------------------- C12
\* the collection before the last call, as an argument of the operations
Before == [cliques |-> pre.cliques, queue |-> pre.queue,
           index_map |-> pre.index_map, ok |-> TRUE]

\* C12: from the same state with a and b in different classes,
\* merge_cliques(a, b) and merge_cliques(b, a) give a surviving class with
\* the same node set and the same predicate set and leave every other class
\* as it was; the surviving index is that of the first argument's class and
\* the freed index that of the second argument's class.
C12_MergeCommutes ==
    Merged =>
        LET a_index == pre.index_map[last.a]
            b_index == pre.index_map[last.b]
            swapped == merge_cliques(Before, last.b, last.a)
        IN  /\ swapped.ok
            /\ Range(cliques[a_index + 1].nodes)
                 = Range(swapped.cliques[b_index + 1].nodes)
            /\ Range(cliques[a_index + 1].preds)
                 = Range(swapped.cliques[b_index + 1].preds)
            /\ Len(cliques) = Len(swapped.cliques)
            /\ \A i \in DOMAIN cliques \ {a_index + 1, b_index + 1} :
                  /\ cliques[i] = pre.cliques[i]
                  /\ swapped.cliques[i] = pre.cliques[i]
            /\ \A id \in Members(pre.cliques[a_index + 1])
                           \cup Members(pre.cliques[b_index + 1]) :
                  /\ index_map[id] = a_index
                  /\ swapped.index_map[id] = b_index
            /\ IsEmptyClique(cliques[b_index + 1])
            /\ IsEmptyClique(swapped.cliques[a_index + 1])
            /\ queue = Append(pre.queue, b_index)
            /\ swapped.queue = Append(pre.queue, a_index)

C12_Witness ==
    /\ Merged
    /\ TripleCase(TRUE, TRUE)
    /\ Len(pre.cliques[pre.index_map[last.a] + 1].nodes)
         # Len(pre.cliques[pre.index_map[last.b] + 1].nodes)
    /\ pre.cliques[pre.index_map[last.a] + 1].preds # <<>>
    /\ pre.cliques[pre.index_map[last.b] + 1].nodes # <<>>

\* ----------------------------------------------------------------- C13
Count(q, x) == Cardinality({i \in DOMAIN q : q[i] = x})

\* C13: after new_snode(old, new) with old a non-empty list of known nodes
\* and new unknown: new is known, resolves to the index that held old[0]
\* and is in that class's node set; no member of old is known or in any
\* class's node set; the class that held old[0] is not put on the free list
\* by the call.
C13_NewSnode ==
    last.op = "new_snode" =>
        LET old == last.l
            new == last.a
            index == pre.index_map[old[1]]
        IN  /\ ~aborted
            /\ contains_node(Self, new)
            /\ get_index(Self, new) = index
            /\ new \in Range(cliques[index + 1].nodes)
            /\ \A n \in Range(old) :
                  /\ ~contains_node(Self, n)
                  /\ \A i \in DOMAIN cliques : n \notin Range(cliques[i].nodes)
            /\ Count(queue, index) = Count(pre.queue, index)

C13_Witness ==
    /\ last.op = "new_snode"
    /\ ~aborted
    /\ Len(last.l) = 2
    /\ pre.index_map[last.l[1]] # pre.index_map[last.l[2]]
    /\ Len(queue) > Len(pre.queue)

\* ------------------------- supernode creation and dissolution (claim C14)
\* remove_supernode(p, meta) right after new_snode(children, p), with meta
\* mapping p to children; scn keeps the collection as it was before the
\* new_snode call and the number of the call that dissolved p
Dissolve ==
    /\ last.op = "new_snode"
    /\ DoCall(remove_supernode(Self, last.a, last.l),
              Call("remove_supernode", last.a, last.a, last.l))
    /\ scn' = [orig |-> pre, at |-> calls + 1]
    /\ UNCHANGED inserted

NextSnode ==
    \/ NewTriple
    \/ AddNodeToEmptyClique
    \/ RemoveNode
    \/ NewSnode
    \/ RemoveSupernode
    \/ Dissolve

SpecSnode == Init /\ [][NextSnode]_vars

\* the last call completed a new_snode / remove_supernode round trip
RoundTrip ==
    /\ scn # NoScenario
    /\ scn.at = calls
    /\ ~aborted

\* the index of the class that held the first child before new_snode
RoundTripIndex == scn.orig.index_map[last.l[1]]

\* what C14 says of one remove_supernode(p, meta) call
Dissolved ==
    last.op = "remove_supernode" =>
        LET p == last.a
            index == pre.index_map[p]
        IN  /\ ~aborted
            /\ \A c \in Range(last.l) :
                  contains_node(Self, c) /\ get_index(Self, c) = index
            /\ ~contains_node(Self, p)
            /\ p \notin Range(cliques[index + 1].nodes)
            /\ cliques[index + 1].preds = pre.cliques[index + 1].preds

\* C14 as claimed: after remove_supernode(p, meta) every child is known and
\* resolves to the index p had, p is unknown and not in that class's node
\* set, the class's predicate set is unchanged; and new_snode(children, p)
\* followed by remove_supernode(p, meta) restores the class's original
\* node set.
C14_AsClaimed ==
    /\ Dissolved
    /\ RoundTrip =>
          Range(cliques[RoundTripIndex + 1].nodes)
             = Range(scn.orig.cliques[RoundTripIndex + 1].nodes)

\* C14 as amended: the same, the round trip restoring the node set of the
\* class when every child was in the node set of that one class before
\* new_snode.
C14_SupernodeRoundTrip ==
    /\ Dissolved
    /\ RoundTrip
         /\ Range(last.l)
              \subseteq Range(scn.orig.cliques[RoundTripIndex + 1].nodes) =>
          Range(cliques[RoundTripIndex + 1].nodes)
             = Range(scn.orig.cliques[RoundTripIndex + 1].nodes)

C14_Witness ==
    /\ RoundTrip
    /\ Len(last.l) = 2
    /\ Range(last.l) \subseteq Range(scn.orig.cliques[RoundTripIndex + 1].nodes)
    /\ scn.orig.cliques[RoundTripIndex + 1].preds # <<>>

\* ------------------------------------------------ node relocation (C15, C16)
\* the indices of the classes whose node list holds n
NodeSlots(n) == {i \in DOMAIN cliques : n \in Range(cliques[i].nodes)}

\* C15: after move_node(node, target) on a known node and a known target,
\* node is in the node set of exactly one class, that class is the one
\* containing target, node's lookup entry is that class's index, and that
\* class is not on the free list.
C15_MoveNode ==
    last.op = "move_node" =>
        LET node == last.a
            target == last.b
            index == pre.index_map[target]
        IN  /\ ~aborted
            /\ NodeSlots(node) = {index + 1}
            /\ contains_node(Self, node)
            /\ get_index(Self, node) = index
            /\ get_index(Self, target) = index
            /\ index \notin Range(queue)

\* C16: after remove_node(node) on a known node, node has no lookup entry and
\* is in no class's node set; the index of its former class is appended to the
\* free list iff that class is now empty (no nodes, no predicates) and is not
\* class 0.
C16_RemoveNode ==
    last.op = "remove_node" =>
        LET node == last.a
            index == pre.index_map[node]
            emptied == index # 0 /\ IsEmptyClique(cliques[index + 1])
        IN  /\ ~aborted
            /\ ~contains_node(Self, node)
            /\ NodeSlots(node) = {}
            /\ queue = IF emptied THEN Append(pre.queue, index) ELSE pre.queue

\* ----------------------------------------------- get_all_edges (claim C17)
\* Meta: supernodes maps a supernode identifier to its ordered member list;
\* incoming and outgoing map a node identifier to its predicate adjacency
get_supernode(m, n) ==
    IF n \in DOMAIN m.supernodes THEN m.supernodes[n] ELSE None

get_preds(m, n, is_source) ==
    IF is_source THEN m.outgoing[n] ELSE m.incoming[n]

\* the children's adjacency lists, all fetched as outgoing
child_edges_outgoing(m, child_nodes, is_source) ==
    [j \in 1..Len(child_nodes) |-> get_preds(m, child_nodes[j], TRUE)]

\* the adjacency lists of a supernode's children, in the children's order
child_edges(m, child_nodes, is_source) ==
    [j \in 1..Len(child_nodes) |-> get_preds(m, child_nodes[j], is_source)]

\* Clique::get_all_edges over the node list nodes: the triple
\* (singlenodes, supernodes, edges) after the loop has visited all of nodes
RECURSIVE Clique_get_all_edges(_, _, _)
Clique_get_all_edges(nodes, is_source, m) ==
    IF nodes = <<>> THEN << <<>>, <<>>, <<>> >>
    ELSE LET n == nodes[Len(nodes)]
             r == Clique_get_all_edges(
                      SubSeq(nodes, 1, Len(nodes) - 1), is_source, m)
             child_nodes == get_supernode(m, n)
         IN  IF child_nodes # None
             THEN << r[1] \o child_nodes,
                     Append(r[2], child_nodes),
                     r[3] \o child_edges(m, child_nodes, is_source) >>
             ELSE << Append(r[1], n),
                     r[2],
                     Append(r[3], get_preds(m, n, is_source)) >>

get_all_edges(c, target, is_source, m) ==
    Clique_get_all_edges(get_clique_by_node(c, target).nodes, is_source, m)

\* The entries of a class's node list, by kind: 0 is a plain node, k > 0 a
\* supernode standing for k nodes.  A node with a parent supernode is in no
\* class and has one parent, so the leaves are distinct; identifiers are
\* compared only for equality and looked up, so one numbering stands for
\* every numbering: leaves are numbered along the list, supernodes after them.
EdgeShapes ==
    {s \in UNION {[1..n -> 0..MaxGroup] : n \in 1..(MaxGroup + 1)} :
        \E i \in DOMAIN s : s[i] > 0}

Width(k) == IF k = 0 THEN 1 ELSE k

RECURSIVE Leaves(_, _)
Leaves(s, i) == IF i = 0 THEN 0 ELSE Leaves(s, i - 1) + Width(s[i])

SuperId(s, i) == Leaves(s, Len(s)) + i

ShapeMembers(s, i) == [j \in 1..s[i] |-> Leaves(s, i - 1) + j]

ShapeNodes(s) ==
    [i \in 1..Len(s) |-> IF s[i] = 0 THEN Leaves(s, i) ELSE SuperId(s, i)]

\* every node has an adjacency of its own in each direction, so two results
\* agree only if they fetched the same nodes' lists in the same direction
ShapeMeta(s) ==
    [supernodes |-> [p \in {SuperId(s, i) : i \in {j \in DOMAIN s : s[j] > 0}}
                        |-> ShapeMembers(s, p - Leaves(s, Len(s)))],
     incoming |-> [n \in 1..(Leaves(s, Len(s)) + Len(s)) |->
                      <<Min(PredIds) + n, Min(PredIds)>>],
     outgoing |-> [n \in 1..(Leaves(s, Len(s)) + Len(s)) |->
                      <<Min(PredIds) + n>>]]

\* the collection holding one class with the node list of shape s
ShapeCollection(s) ==
    [cliques |-> <<Clique_new(<<>>, <<>>),
                   Clique_new(<<Min(PredIds)>>, ShapeNodes(s))>>,
     queue |-> <<>>,
     index_map |-> [id \in Range(ShapeNodes(s)) \cup {Min(PredIds)} |-> 1],
     ok |-> TRUE]

InitEdges ==
    /\ \E s \in EdgeShapes :
          /\ cliques = ShapeCollection(s).cliques
          /\ queue = ShapeCollection(s).queue
          /\ index_map = ShapeCollection(s).index_map
          /\ pre = Strip(ShapeCollection(s))
          /\ meta = ShapeMeta(s)
    /\ aborted = FALSE
    /\ last = Call("new", 0, 0, <<>>)
    /\ calls = 0
    /\ scn = NoScenario
    /\ tc = Strip(CliqueCollection_new)
    /\ change = NoChange
    /\ super_nodes = <<>>
    /\ inserted = {}
    /\ all_edges = NoEdges

GetAllEdges ==
    \E target \in Range(cliques[2].nodes) : \E is_source \in BOOLEAN :
        /\ all_edges' = [target |-> target, is_source |-> is_source,
                         result |-> get_all_edges(Self, target, is_source, meta)]
        /\ last' = Call("get_all_edges", target, target, <<>>)
        /\ UNCHANGED <<cliques, queue, index_map, aborted, pre, calls, scn,
                       tc, change, super_nodes, inserted, meta>>

SpecEdges == InitEdges /\ [][GetAllEdges]_vars

\* the node list with the supernode at position i replaced in place by its
\* members
Expanded(nodes, i) ==
    SubSeq(nodes, 1, i - 1) \o get_supernode(meta, nodes[i])
        \o SubSeq(nodes, i + 1, Len(nodes))

\* the list q without its k-th element
Without(q, k) == SubSeq(q, 1, k - 1) \o SubSeq(q, k + 1, Len(q))

\* how many of the first i entries of nodes are supernodes
SupersUpTo(nodes, i) ==
    Cardinality({j \in 1..i : get_supernode(meta, nodes[j]) # None})

\* C17: for a class whose node list contains a supernode s recorded in Meta,
\* the leaf node list and the per-leaf adjacency lists returned by
\* get_all_edges equal those returned for the class with s replaced in place
\* by its members, for both values of is_source; only the list of member
\* groups differs (it lacks the group of s).
C17_ExpansionRoundTrip ==
    all_edges # NoEdges =>
        LET nodes == get_clique_by_node(Self, all_edges.target).nodes
        IN  \A i \in DOMAIN nodes :
                get_supernode(meta, nodes[i]) # None =>
                    LET r == Clique_get_all_edges(Expanded(nodes, i),
                                                  all_edges.is_source, meta)
                    IN  /\ all_edges.result[1] = r[1]
                        /\ all_edges.result[3] = r[3]
                        /\ r[2] = Without(all_edges.result[2],
                                          SupersUpTo(nodes, i))
                        /\ r[2] # all_edges.result[2]

C17_Witness ==
    /\ all_edges # NoEdges
    /\ ~all_edges.is_source
    /\ Len(all_edges.result[2]) = 1
    /\ Len(all_edges.result[2][1]) > 1
    /\ Len(all_edges.result[1]) > Len(all_edges.result[2][1])
    /\ Len(all_edges.result[3]) = Len(all_edges.result[1])

\* ------------------------------------- CliqueChange::new_merge (claim C18)
\* new_merge that gives a's node list on a tie
new_merge_ties_to_a(cc, a, b, is_source) ==
    IF ~(contains_node(cc, a) /\ contains_node(cc, b))
    THEN [ok |-> FALSE, change |-> NoChange]
    ELSE LET a_index == get_index(cc, a)
             b_index == get_index(cc, b)
         IN  [ok |-> TRUE,
              change |-> CliqueChange_new(
                  a_index,
                  IF clique_len(cc, a_index) <= clique_len(cc, b_index)
                  THEN get_nodes(cc, a_index)
                  ELSE get_nodes(cc, b_index),
                  is_source)]

\* get_index panics on an identifier the collection does not know
new_merge(cc, a, b, is_source) ==
    IF ~(contains_node(cc, a) /\ contains_node(cc, b))
    THEN [ok |-> FALSE, change |-> NoChange]
    ELSE LET a_index == get_index(cc, a)
             b_index == get_index(cc, b)
         IN  [ok |-> TRUE,
              change |-> CliqueChange_new(
                  a_index,
                  IF clique_len(cc, a_index) < clique_len(cc, b_index)
                  THEN get_nodes(cc, a_index)
                  ELSE get_nodes(cc, b_index),
                  is_source)]

\* the driver computes the change of a merge it is about to make
NewMerge ==
    \E a \in Known : \E b \in Known : \E is_source \in BOOLEAN :
        LET r == new_merge(Self, a, b, is_source)
        IN  /\ ~aborted
            /\ change = NoChange
            /\ calls < MaxCalls
            /\ calls' = calls + 1
            /\ change' = r.change
            /\ aborted' = ~r.ok
            /\ last' = Call("new_merge", a, b, <<>>)
            /\ pre' = Strip(Self)
            /\ UNCHANGED <<cliques, queue, index_map, scn, tc, super_nodes,
                           inserted, meta, all_edges>>

NextMerge ==
    \/ NewTriple
    \/ AddNodeToEmptyClique
    \/ NewPred
    \/ RemoveNode
    \/ NewMerge

SpecMerge == Init /\ [][NextMerge]_vars

\* C18: new_merge(cc, a, b, is_source) returns a change whose clique_index is
\* a's class index and whose new_nodes is the node list of the class with
\* fewer nodes among a's and b's, b's on a tie; the collection is as it was.
C18_NewMerge ==
    last.op = "new_merge" =>
        LET ca == cliques[index_map[last.a] + 1]
            cb == cliques[index_map[last.b] + 1]
        IN  /\ ~aborted
            /\ change.clique_index = index_map[last.a]
            /\ Len(ca.nodes) < Len(cb.nodes) => change.new_nodes = ca.nodes
            /\ Len(cb.nodes) < Len(ca.nodes) => change.new_nodes = cb.nodes
            /\ Len(ca.nodes) = Len(cb.nodes) => change.new_nodes = cb.nodes
            /\ Strip(Self) = pre

C18_Witness ==
    /\ last.op = "new_merge"
    /\ index_map[last.a] # index_map[last.b]
    /\ Len(cliques[index_map[last.a] + 1].nodes)
         = Len(cliques[index_map[last.b] + 1].nodes)
    /\ cliques[index_map[last.a] + 1].nodes # cliques[index_map[last.b] + 1].nodes
    /\ change.new_nodes = cliques[index_map[last.b] + 1].nodes

\* ------------------------------------------- index stability (claim C19)
NextFrame ==
    \/ NewTriple
    \/ RemoveNode
    \/ MoveNode
    \/ NewSnode

SpecFrame == Init /\ [][NextFrame]_vars

\* the identifiers the last call was given
Arguments == {last.a, last.b} \cup Range(last.l)

\* the slots that, before the last call, held a non-empty class with none of
\* the call's arguments in it or resolving to it
Bystanders ==
    {i \in DOMAIN pre.cliques :
        /\ ~IsEmptyClique(pre.cliques[i])
        /\ Members(pre.cliques[i]) \cap Arguments = {}
        /\ \A x \in Arguments \cap DOMAIN pre.index_map :
              pre.index_map[x] + 1 # i}

\* C19: every mutating operation leaves unchanged the class index, the node
\* set and the predicate set of every non-empty class that contains none of
\* its argument identifiers, after any sequence of new_triple, remove_node,
\* move_node and new_snode calls.
C19_IndexStability ==
    \A i \in Bystanders :
        /\ Range(cliques[i].nodes) = Range(pre.cliques[i].nodes)
        /\ Range(cliques[i].preds) = Range(pre.cliques[i].preds)
        /\ \A m \in Members(pre.cliques[i]) \cap DOMAIN pre.index_map :
              m \in DOMAIN index_map /\ index_map[m] = pre.index_map[m]

\* ------------------------------- insertion only: components (claim C20)
\* new_triple(node, pred), the pair recorded as an edge of the inserted graph
InsertTriple ==
    \E node \in KnownNodes \cup FreshNodes, pred \in KnownPreds \cup FreshPreds :
        /\ DoCall(new_triple(Self, node, pred),
                  Call("new_triple", node, pred, <<>>))
        /\ inserted' = inserted \cup {<<node, pred>>}
        /\ UNCHANGED scn

SpecInsert == Init /\ [][InsertTriple]_vars

\* the identifiers one edge away from S in the inserted graph
Neighbours(S) ==
    {e[2] : e \in {d \in inserted : d[1] \in S}}
        \cup {e[1] : e \in {d \in inserted : d[2] \in S}}

\* the connected component of the inserted graph that includes S
RECURSIVE Component(_)
Component(S) ==
    IF Neighbours(S) \subseteq S THEN S ELSE Component(S \cup Neighbours(S))

Vertices == {e[1] : e \in inserted} \cup {e[2] : e \in inserted}

Components == {Component({x}) : x \in Vertices}

\* C20: after any sequence of new_triple calls on a new collection the
\* non-empty classes are exactly the connected components of the graph of
\* inserted (node, pred) pairs: two identifiers resolve to the same index iff
\* they are connected, no identifier is duplicated inside a class, and the
\* partition is a function of the set of inserted pairs alone (the same for
\* every insertion order and for repeated insertions).
C20_Components ==
    /\ ~aborted
    /\ Known = Vertices
    /\ \A x \in Known : \A y \in Known :
          (index_map[x] = index_map[y]) <=> (y \in Component({x}))
    /\ {Members(cliques[i + 1]) : i \in NonEmptySlots} = Components
    /\ \A i \in NonEmptySlots :
          /\ NoDuplicates(cliques[i + 1].preds \o cliques[i + 1].nodes)
          /\ Resolving(index_map, i) = Members(cliques[i + 1])
          /\ Range(cliques[i + 1].nodes) \subseteq {e[1] : e \in inserted}
          /\ Range(cliques[i + 1].preds) \subseteq {e[2] : e \in inserted}
    /\ Cardinality(NonEmptySlots) = Cardinality(Components)

C20_Witness ==
    /\ Merged
    /\ calls > Cardinality(inserted)
    /\ Cardinality(Components) = 1
    /\ Cardinality(Vertices) > 3
====
